---- MODULE Spec2Model ----
(***************************************************************************)
(* Model of KinomeMETA/Reptile/meta.py: Learner (a base network `net` and  *)
(* a working network `net_pi`) and MetaLearner (the outer loop that sums   *)
(* the per-episode gradients and writes them into `net` through tensor     *)
(* hooks before one Adam step).                                            *)
(*                                                                         *)
(* Tensors are abstracted to integers, one per parameter.  The network     *)
(* module, the metric functions and torch itself are outside the file; a   *)
(* forward/backward pass is an input: the query set of an episode decides  *)
(* the gradient, the loss and the six scores it yields (QuerySets).        *)
(***************************************************************************)
EXTENDS Integers, Sequences, FiniteSets, TLC

VARIABLES net, net_pi, theta, pi, p_grad, hooks, adam_step, num_updates,
          pc, mode, meta_batchsz, ep, upd, ep_out, sum_ref, sum_own,
          losses, rocs, scores, dummy_reach, calls, raised, log

vars == <<net, net_pi, theta, pi, p_grad, hooks, adam_step, num_updates,
          pc, mode, meta_batchsz, ep, upd, ep_out, sum_ref, sum_own,
          losses, rocs, scores, dummy_reach, calls, raised, log>>

\* ------------------------------------------------------------------ bounds
MaxBatch == 2
MaxUpdates == 2
MaxCalls == 2

\* ------------------------------------------------------------------ inputs
\* A gradient over n parameters with direction d: entry i is d * i, so that
\* every parameter position carries a different value.
GradVec(d, n) == [i \in 1..n |-> d * i]

\* The gradient of the support loss in an inner step.
SupportGradVec(n) == GradVec(1, n)

\* The gradient the dummy loss itself yields for the base parameters.
DummyGradVec(n) == GradVec(-1, n)

\* The query sets an episode can carry.  Query set d yields the gradient
\* GradVec(d, n), the loss d and the six scores (acc, pre_score, recall_score,
\* mcc_score, roc_score, f1_score) 10 d + 1 .. 10 d + 6: scaled to integers and
\* pairwise different, so that a swapped position shows.
QuerySets == {1, 2}

OutcomeLoss(d) == d

OutcomeScores(d) == [j \in 1..6 |-> 10 * d + j]

\* ------------------------------------------------------------- tensors
None == <<>>

Some(v) == <<v>>

\* ------------------------------------------------------------- networks
Layer(kind, pnames) == [kind |-> kind, pnames |-> pnames]

\* The network classes (net_cls, *args) a Learner is built from: the module
\* list of the network and the named parameters of every module.
Archs ==
    { << Layer("Conv2d", <<"weight">>), Layer("BatchNorm2d", <<"weight", "bias">>),
         Layer("Linear", <<"weight", "bias">>) >>,
      << Layer("Linear", <<"weight">>), Layer("Conv1d", <<"weight", "bias">>),
         Layer("Dropout", <<>>), Layer("GRUCell", <<"weight_ih", "weight_hh">>),
         Layer("LayerNorm", <<"weight", "bias">>) >> }

ParamsOfLayer(arch, l) ==
    [j \in 1..Len(arch[l].pnames) |-> [layer |-> l, name |-> arch[l].pnames[j]]]

RECURSIVE ParamsUpTo(_, _)
ParamsUpTo(arch, l) ==
    IF l = 0 THEN <<>> ELSE ParamsUpTo(arch, l - 1) \o ParamsOfLayer(arch, l)

\* nn.Module.parameters(): every parameter of every module, in module order.
Parameters(arch) == ParamsUpTo(arch, Len(arch))

NParams(arch) == Len(Parameters(arch))

ParamIndex(arch, l, name) ==
    CHOOSE i \in 1..NParams(arch) : Parameters(arch)[i] = [layer |-> l, name |-> name]

Min(a, b) == IF a < b THEN a ELSE b

Sgn(x) == IF x > 0 THEN 1 ELSE IF x < 0 THEN -1 ELSE 0

\* One step of a call, and the episode it works on (0: none).
Ev(op, e) == [op |-> op, ep |-> e]

RECURSIVE SeqSum(_)
SeqSum(xs) == IF xs = <<>> THEN 0 ELSE xs[1] + SeqSum(Tail(xs))

\* --------------------------------------------------------------- Learner
\* A working-network tensor: ptr = 0 when it owns its storage (val), ptr = j
\* when its storage is that of base parameter j.
PiVal(i) == IF pi[i].ptr = 0 THEN pi[i].val ELSE theta[pi[i].ptr]

\* The assignment without the clone, m_to.<p>.data = m_from.<p>.data: the
\* working tensor shares the storage of base parameter j.
CloneDataAliased(j) == [ptr |-> j, val |-> theta[j]]

\* m_from.<p>.data.clone(): a fresh tensor holding the value of base parameter j.
CloneData(j) == [ptr |-> 0, val |-> theta[j]]

\* The test widened to every convolution and normalization type.
IsNormalizableAnyConvOrNorm(kind) ==
    kind \in {"Linear", "Conv2d", "BatchNorm2d", "Conv1d", "LayerNorm"}

\* isinstance(m_to, nn.Linear) or isinstance(m_to, nn.Conv2d) or
\* isinstance(m_to, nn.BatchNorm2d)
IsNormalizable(kind) == kind \in {"Linear", "Conv2d", "BatchNorm2d"}

\* Whether update_pi assigns working parameter i: its module is one the zip of
\* the two module lists reaches, of a copied type, and the parameter is that
\* module's weight or its (present) bias.
IsCopied(i) ==
    LET p == Parameters(net_pi)[i]
    IN  /\ p.layer <= Min(Len(net), Len(net_pi))
        /\ IsNormalizable(net_pi[p.layer].kind)
        /\ p.name \in {"weight", "bias"}

\* The working network after update_pi.
UpdatePiData ==
    [i \in 1..NParams(net_pi) |->
        IF IsCopied(i)
        THEN CloneData(ParamIndex(net, Parameters(net_pi)[i].layer,
                                  Parameters(net_pi)[i].name))
        ELSE pi[i]]

\* optim.SGD(self.net_pi.parameters(), 0.001).step(): p <- p - lr * grad, in
\* place (the learning rate is scaled to 1).
SGDStep(p, g) == p - g

\* The loop bound off by one, range(num_updates - 1).
InnerLoopContinuesShort(u, n) == u < n - 1

\* range(num_updates): whether the inner loop runs another iteration.
InnerLoopContinues(u, n) == u < n

\* self.update_pi() at the head of Learner.forward
UpdatePi ==
    /\ pc = "update_pi"
    /\ pi' = UpdatePiData
    /\ upd' = 0
    /\ pc' = "inner"
    /\ log' = Append(log, Ev("reset", ep))
    /\ UNCHANGED <<net, net_pi, theta, p_grad, hooks, adam_step, num_updates, mode,
                   meta_batchsz, ep, ep_out, sum_ref, sum_own, losses, rocs,
                   scores, dummy_reach, calls, raised>>

\* One iteration of the inner loop: forward on the support set, zero_grad,
\* backward, SGD step on the working network's tensors.
InnerStep ==
    /\ pc = "inner"
    /\ InnerLoopContinues(upd, num_updates)
    /\ LET new(i) == SGDStep(PiVal(i), SupportGradVec(NParams(net_pi))[i])
       IN  /\ pi' = [i \in 1..NParams(net_pi) |->
                       IF pi[i].ptr = 0 THEN [pi[i] EXCEPT !.val = new(i)] ELSE pi[i]]
           /\ theta' = [j \in 1..NParams(net) |->
                       IF \E i \in 1..NParams(net_pi) : pi[i].ptr = j
                       THEN new(CHOOSE i \in 1..NParams(net_pi) : pi[i].ptr = j)
                       ELSE theta[j]]
    /\ upd' = upd + 1
    /\ log' = Append(log, Ev("inner", ep))
    /\ UNCHANGED <<net, net_pi, p_grad, hooks, adam_step, num_updates, pc, mode,
                   meta_batchsz, ep, ep_out, sum_ref, sum_own, losses, rocs,
                   scores, dummy_reach, calls, raised>>

\* The query forward pass, the six metrics and autograd.grad(loss,
\* net_pi.parameters(), create_graph=True); Learner.forward returns.
QueryEval(d) ==
    /\ pc = "inner"
    /\ ~InnerLoopContinues(upd, num_updates)
    /\ ep_out' = Append(ep_out, [loss |-> OutcomeLoss(d),
                                 grads |-> GradVec(d, NParams(net_pi)),
                                 scores |-> OutcomeScores(d)])
    /\ pc' = "collect"
    /\ log' = Append(log, Ev("query", ep))
    /\ UNCHANGED <<net, net_pi, theta, pi, p_grad, hooks, adam_step, num_updates,
                   mode, meta_batchsz, ep, upd, sum_ref, sum_own, losses, rocs,
                   scores, dummy_reach, calls, raised>>

\* ----------------------------------------------------------- MetaLearner
EmptyScores == [j \in 1..6 |-> <<>>]

\* sum_grads_pi: None, the very tuple the first episode returned, or the list
\* the accumulation built.
SumVal ==
    IF sum_ref = "grad_pi" THEN ep_out[1].grads
    ELSE IF sum_ref = "list" THEN sum_own
    ELSE <<>>

\* The in-place addition i.add_(j): the first operand holds the sum too.
TorchAddInPlace(x, y) == [out |-> x + y, self |-> x + y]

\* torch.add(i, j): the result, and what the first operand holds afterwards.
TorchAdd(x, y) == [out |-> x + y, self |-> x]

\* [torch.add(i, j) for i, j in zip(sum_grads_pi, grad_pi)]
ZipAdd(a, b) == [i \in 1..Min(Len(a), Len(b)) |-> TorchAdd(a[i], b[i]).out]

\* The first operand of the zip after the additions.
ZipSelf(a, b) ==
    [i \in 1..Len(a) |-> IF i <= Len(b) THEN TorchAdd(a[i], b[i]).self ELSE a[i]]

\* np.array(xs).mean(), kept as the exact fraction num / den.
Mean(xs) == [num |-> SeqSum(xs), den |-> Len(xs)]

\* What MetaLearner.forward returns: losses, rocs.
ForwardReturn == [kind |-> "forward", losses |-> losses, rocs |-> rocs, means |-> <<>>]

\* The return with the means of mcc_scores and roc_scores exchanged.
PredReturnSwapped ==
    [kind |-> "pred", losses |-> losses, rocs |-> <<>>,
     means |-> [j \in 1..6 |-> Mean(scores[IF j = 4 THEN 5 ELSE IF j = 5 THEN 4 ELSE j])]]

\* What MetaLearner.pred returns: losses and the mean of each score list.
PredReturn ==
    [kind |-> "pred", losses |-> losses, rocs |-> <<>>,
     means |-> [j \in 1..6 |-> Mean(scores[j])]]

ClearLocals ==
    /\ ep_out' = <<>>
    /\ sum_ref' = "None"
    /\ sum_own' = <<>>
    /\ losses' = <<>>
    /\ rocs' = <<>>
    /\ scores' = EmptyScores
    /\ dummy_reach' = {}
    /\ log' = <<>>

\* A call of MetaLearner.forward on a batch of k episodes begins.
MetaTrain(k) ==
    /\ pc = "idle"
    /\ calls < MaxCalls
    /\ calls' = calls + 1
    /\ mode' = "train"
    /\ meta_batchsz' = k
    /\ ep' = 1
    /\ upd' = 0
    /\ pc' = "update_pi"
    /\ ClearLocals
    /\ UNCHANGED <<net, net_pi, theta, pi, p_grad, hooks, adam_step, num_updates, raised>>

\* A call of MetaLearner.pred on a batch of k episodes begins.
MetaEval(k) ==
    /\ pc = "idle"
    /\ calls < MaxCalls
    /\ calls' = calls + 1
    /\ mode' = "eval"
    /\ meta_batchsz' = k
    /\ ep' = 1
    /\ upd' = 0
    /\ pc' = "update_pi"
    /\ ClearLocals
    /\ UNCHANGED <<net, net_pi, theta, pi, p_grad, hooks, adam_step, num_updates, raised>>

\* Where the loop over the batch goes after episode ep.
NextEpisode(after) ==
    IF ep < meta_batchsz
    THEN /\ ep' = ep + 1
         /\ pc' = "update_pi"
    ELSE /\ ep' = ep
         /\ pc' = after

\* forward, loop body after self.learner(...): rocs, losses, sum_grads_pi.
Accumulate ==
    /\ pc = "collect"
    /\ mode = "train"
    /\ rocs' = Append(rocs, ep_out[ep].scores[5])
    /\ losses' = Append(losses, ep_out[ep].loss)
    /\ IF sum_ref = "None"
       THEN /\ sum_ref' = "grad_pi"
            /\ UNCHANGED <<sum_own, ep_out>>
       ELSE /\ sum_ref' = "list"
            /\ sum_own' = ZipAdd(SumVal, ep_out[ep].grads)
            /\ ep_out' = IF sum_ref = "grad_pi"
                         THEN [ep_out EXCEPT ![1].grads = ZipSelf(@, ep_out[ep].grads)]
                         ELSE ep_out
    /\ NextEpisode("net_forward")
    /\ log' = Append(log, Ev("accum", ep))
    /\ UNCHANGED <<net, net_pi, theta, pi, p_grad, hooks, adam_step, num_updates,
                   mode, meta_batchsz, upd, scores, dummy_reach, calls, raised>>

\* pred, loop body after self.learner(...): the seven lists.
Collect ==
    /\ pc = "collect"
    /\ mode = "eval"
    /\ losses' = Append(losses, ep_out[ep].loss)
    /\ scores' = [j \in 1..6 |-> Append(scores[j], ep_out[ep].scores[j])]
    /\ NextEpisode("pred_return")
    /\ log' = Append(log, Ev("collect", ep))
    /\ UNCHANGED <<net, net_pi, theta, pi, p_grad, hooks, adam_step, num_updates,
                   mode, meta_batchsz, upd, ep_out, sum_ref, sum_own, rocs,
                   dummy_reach, calls, raised>>

\* The parameters of net a dummy loss's graph can reach: all of them, or all
\* but the last when the forward pass on that support set does not use it.
ReachSets(n) == {1..n, 1..(n - 1)}

\* The episode whose support set feeds the dummy forward pass: support_x[0],
\* the first of the batch.
DummyEpisode == 1

\* self.learner.net_forward(support[0]): the dummy loss on the base network.
NetForward(reach) ==
    /\ pc = "net_forward"
    /\ dummy_reach' = reach
    /\ pc' = "register"
    /\ log' = Append(log, Ev("dummy", DummyEpisode))
    /\ UNCHANGED <<net, net_pi, theta, pi, p_grad, hooks, adam_step, num_updates,
                   mode, meta_batchsz, ep, upd, ep_out, sum_ref, sum_own, losses,
                   rocs, scores, calls, raised>>

\* ----------------------------------------------------------- write_grads
\* closure(): the hook registered on parameter ii.  Called with a gradient it
\* returns sum_grads_pi[ii]; out is that value, or None when the index is out
\* of range and the call raises IndexError.  owner is the write_grads call
\* whose hooks list holds the handle.
Closure(ii) ==
    [out |-> IF ii <= Len(SumVal) THEN Some(SumVal[ii]) ELSE None, owner |-> calls]

\* lambda grad: sum_grads_pi[ii]
HookCall(h, grad) == h.out[1]

RECURSIVE RunHooks(_, _)
RunHooks(hs, grad) ==
    IF hs = <<>> THEN grad ELSE RunHooks(Tail(hs), HookCall(hs[1], grad))

HookRaises(i) == \E n \in 1..Len(hooks[i]) : hooks[i][n].out = None

\* The removal loop stopping one handle early, for h in hooks[:-1].
RemoveHandlesButLast(hs, i) ==
    IF i = NParams(net) THEN hs ELSE SelectSeq(hs, LAMBDA h : h.owner # calls)

\* for h in hooks: h.remove(), seen from parameter i: the hooks left on it.
RemoveHandles(hs, i) == SelectSeq(hs, LAMBDA h : h.owner # calls)

\* optim.Adam(self.learner.parameters(), lr=meta_lr).step() on one parameter
\* whose .grad is g: the parameter moves one unit against the sign of g.
AdamParam(th, g) == th - Sgn(g)

\* for i, v in enumerate(self.learner.parameters()): v.register_hook(closure())
RegisterHooks ==
    /\ pc = "register"
    /\ hooks' = [i \in 1..NParams(net) |-> Append(hooks[i], Closure(i))]
    /\ pc' = "zero_grad"
    /\ log' = Append(log, Ev("hook", 0))
    /\ UNCHANGED <<net, net_pi, theta, pi, p_grad, adam_step, num_updates, mode,
                   meta_batchsz, ep, upd, ep_out, sum_ref, sum_own, losses, rocs,
                   scores, dummy_reach, calls, raised>>

\* self.optimizer.zero_grad(): every base parameter's .grad is set to None.
ZeroGrad ==
    /\ pc = "zero_grad"
    /\ p_grad' = [i \in 1..NParams(net) |-> None]
    /\ pc' = "backward"
    /\ log' = Append(log, Ev("zero", 0))
    /\ UNCHANGED <<net, net_pi, theta, pi, hooks, adam_step, num_updates, mode,
                   meta_batchsz, ep, upd, ep_out, sum_ref, sum_own, losses, rocs,
                   scores, dummy_reach, calls, raised>>

\* An exception leaves write_grads: nothing between the registration loop and
\* the removal loop catches it, so the call ends where it was raised.
Unwind ==
    /\ pc' = "idle"
    /\ mode' = "none"
    /\ raised' = TRUE
    /\ ClearLocals
    /\ UNCHANGED <<net, net_pi, theta, pi, p_grad, hooks, adam_step, num_updates,
                   meta_batchsz, ep, upd, calls>>

\* dummy_loss.backward(): every parameter the graph reaches gets the dummy
\* loss's own gradient, passed through the parameter's hooks in registration
\* order, accumulated into .grad.  A hook whose index is out of range raises
\* IndexError out of backward().
Backward ==
    /\ pc = "backward"
    /\ IF \E i \in dummy_reach : HookRaises(i)
       THEN Unwind
       ELSE /\ p_grad' = [i \in 1..NParams(net) |->
                    IF i \in dummy_reach
                    THEN Some((IF p_grad[i] = None THEN 0 ELSE p_grad[i][1])
                              + RunHooks(hooks[i], DummyGradVec(NParams(net))[i]))
                    ELSE p_grad[i]]
            /\ pc' = "step"
            /\ log' = Append(log, Ev("backward", 0))
            /\ UNCHANGED <<net, net_pi, theta, pi, hooks, adam_step, num_updates, mode,
                   meta_batchsz, ep, upd, ep_out, sum_ref, sum_own, losses, rocs,
                   scores, dummy_reach, calls, raised>>

\* self.optimizer.step(): Adam on every base parameter whose .grad is set;
\* adam_step is the optimizer's per-parameter state['step'].
OptStep ==
    /\ pc = "step"
    /\ adam_step' = [i \in 1..NParams(net) |->
                     IF p_grad[i] = None THEN adam_step[i] ELSE adam_step[i] + 1]
    /\ theta' = [i \in 1..NParams(net) |->
                     IF p_grad[i] = None THEN theta[i]
                     ELSE AdamParam(theta[i], p_grad[i][1])]
    /\ pc' = "remove"
    /\ log' = Append(log, Ev("step", 0))
    /\ UNCHANGED <<net, net_pi, pi, p_grad, hooks, num_updates, mode,
                   meta_batchsz, ep, upd, ep_out, sum_ref, sum_own, losses, rocs,
                   scores, dummy_reach, calls, raised>>

\* for h in hooks: h.remove()
RemoveHooks ==
    /\ pc = "remove"
    /\ hooks' = [i \in 1..NParams(net) |-> RemoveHandles(hooks[i], i)]
    /\ pc' = "forward_return"
    /\ log' = Append(log, Ev("unhook", 0))
    /\ UNCHANGED <<net, net_pi, theta, pi, p_grad, adam_step, num_updates, mode,
                   meta_batchsz, ep, upd, ep_out, sum_ref, sum_own, losses, rocs,
                   scores, dummy_reach, calls, raised>>

\* zero_grad(), backward() or step() raises (device or memory fault, a hook
\* result the engine rejects).
InjectionRaises ==
    /\ pc \in {"zero_grad", "backward", "step"}
    /\ Unwind

\* return losses, rocs
ReturnForward ==
    /\ pc = "forward_return"
    /\ pc' = "idle"
    /\ mode' = "none"
    /\ ClearLocals
    /\ UNCHANGED <<net, net_pi, theta, pi, p_grad, hooks, adam_step, num_updates,
                   meta_batchsz, ep, upd, calls, raised>>

\* return losses, np.array(accs).mean(), ...
ReturnPred ==
    /\ pc = "pred_return"
    /\ pc' = "idle"
    /\ mode' = "none"
    /\ ClearLocals
    /\ UNCHANGED <<net, net_pi, theta, pi, p_grad, hooks, adam_step, num_updates,
                   meta_batchsz, ep, upd, calls, raised>>

\* ---------------------------------------------------------- specification
\* net_cls(*args): the value a freshly built network gives its i-th tensor.
\* The two instances are initialised separately and hold different values.
InitTensor(which, i) == IF which = "net" THEN 0 ELSE i

\* MetaLearner.__init__ / Learner.__init__ with both networks built from arch
\* a and arch b, each freshly initialised.
Constructed(a, b) ==
    /\ net = a
    /\ net_pi = b
    /\ theta = [i \in 1..NParams(a) |-> InitTensor("net", i)]
    /\ pi = [i \in 1..NParams(b) |-> [ptr |-> 0, val |-> InitTensor("net_pi", i)]]
    /\ p_grad = [i \in 1..NParams(a) |-> None]
    /\ hooks = [i \in 1..NParams(a) |-> <<>>]
    /\ adam_step = [i \in 1..NParams(a) |-> 0]
    /\ num_updates \in 0..MaxUpdates
    /\ pc = "idle"
    /\ mode = "none"
    /\ meta_batchsz = 0
    /\ ep = 0
    /\ upd = 0
    /\ ep_out = <<>>
    /\ sum_ref = "None"
    /\ sum_own = <<>>
    /\ losses = <<>>
    /\ rocs = <<>>
    /\ scores = EmptyScores
    /\ dummy_reach = {}
    /\ calls = 0
    /\ raised = FALSE
    /\ log = <<>>

Init == \E a \in Archs : Constructed(a, a)

Next ==
    \/ \E k \in 1..MaxBatch : MetaTrain(k)
    \/ \E k \in 1..MaxBatch : MetaEval(k)
    \/ UpdatePi
    \/ InnerStep
    \/ \E d \in QuerySets : QueryEval(d)
    \/ Accumulate
    \/ Collect
    \/ \E reach \in ReachSets(NParams(net)) : NetForward(reach)
    \/ RegisterHooks
    \/ ZeroGrad
    \/ Backward
    \/ OptStep
    \/ RemoveHooks
    \/ InjectionRaises
    \/ ReturnForward
    \/ ReturnPred

Spec == Init /\ [][Next]_vars

\* A network class whose two instances differ in structure (a module added on
\* some constructions): the working network is a prefix of the base network,
\* or the other way round.
MismatchPairs ==
    LET short == << Layer("Linear", <<"weight", "bias">>) >>
        long  == << Layer("Linear", <<"weight", "bias">>), Layer("Linear", <<"weight">>) >>
    IN  { <<short, long>>, <<long, short>> }

InitMismatch == \E ab \in MismatchPairs : Constructed(ab[1], ab[2])

SpecMismatch == InitMismatch /\ [][Next]_vars

\* ------------------------------------------------------------- properties
AnyHook == \E i \in 1..NParams(net) : hooks[i] # <<>>

JustReset == pc = "inner" /\ upd = 0

\* C1: when zero_grad(), backward() or step() raises after the hooks were
\* registered, no hook is left on any base parameter once the error has
\* reached the caller.
C1_HooksRemovedOnError == (pc = "idle" /\ raised) => ~AnyHook

\* C2: right after update_pi, before the first inner step, every tensor of the
\* working network equals the corresponding tensor of the base network.
C2_ResetAlignsAll ==
    JustReset => \A i \in 1..NParams(net_pi) : PiVal(i) = theta[i]

\* C3: when the accumulated gradient has another number of entries than the
\* base network has parameters, the meta-step aborts: the optimizer step is
\* never applied.
C3_MismatchAborts ==
    (mode = "train" /\ sum_ref # "None" /\ Len(SumVal) # NParams(net))
        => pc \notin {"remove", "forward_return"}

\* C4: the gradient the optimizer step consumed for base parameter i is the
\* accumulated sum at position i, for every base parameter.
C4_EveryParamGetsSum ==
    pc = "remove" => \A i \in 1..NParams(net) : p_grad[i] = Some(SumVal[i])

\* C5: the base parameters change in the optimizer step of write_grads and in
\* no other step.
C5_BaseChangesOnlyInOptStep ==
    [][theta' # theta => (pc = "step" /\ pc' = "remove")]_vars

C5_Witness ==
    /\ pc = "remove"
    /\ num_updates >= 1
    /\ \E i \in 1..NParams(net) : theta[i] # InitTensor("net", i)
    /\ \E i \in 1..NParams(net_pi) : PiVal(i) # theta[i]

RECURSIVE EpisodesLog(_, _, _)
EpisodesLog(k, n, last) ==
    IF k = 0 THEN <<>>
    ELSE EpisodesLog(k - 1, n, last)
            \o <<Ev("reset", k)>> \o [u \in 1..n |-> Ev("inner", k)]
            \o <<Ev("query", k), Ev(last, k)>>

ExpectedTrainLog(k, n) ==
    EpisodesLog(k, n, "accum")
        \o <<Ev("dummy", 1), Ev("hook", 0), Ev("zero", 0), Ev("backward", 0),
             Ev("step", 0), Ev("unhook", 0)>>

ExpectedEvalLog(k, n) == EpisodesLog(k, n, "collect")

IsPrefix(xs, ys) == Len(xs) <= Len(ys) /\ xs = SubSeq(ys, 1, Len(xs))

\* C6: a meta_train call on k episodes runs, per episode in sequence, reset,
\* exactly num_updates inner steps, the query evaluation and the
\* accumulation; then once the dummy forward, the hook registration,
\* zero_grad, backward, the optimizer step and the hook removal.
C6_TrainOrder ==
    mode = "train" =>
        /\ IsPrefix(log, ExpectedTrainLog(meta_batchsz, num_updates))
        /\ pc = "forward_return" => log = ExpectedTrainLog(meta_batchsz, num_updates)

C6_Witness ==
    /\ pc = "forward_return"
    /\ meta_batchsz >= 2
    /\ num_updates >= 2

RECURSIVE SumAt(_, _, _)
SumAt(outs, e, i) == IF e = 0 THEN 0 ELSE SumAt(outs, e - 1, i) + outs[e].grads[i]

\* C7: the accumulated vector is, at every position, the sum of the entries
\* the accumulated episodes returned at that position, and accumulating
\* alters no vector an episode returned.
C7_SumIsElementwise ==
    /\ [](mode = "train" /\ sum_ref # "None" =>
            /\ Len(SumVal) = NParams(net)
            /\ \A i \in 1..NParams(net) : SumVal[i] = SumAt(ep_out, Len(losses), i))
    /\ [][\A e \in 1..Len(ep_out) : e <= Len(ep_out') => ep_out'[e] = ep_out[e]]_vars

C7_Witness ==
    /\ pc = "net_forward"
    /\ Len(ep_out) >= 2
    /\ ep_out[1].grads # ep_out[2].grads

\* C8: while no call has raised, hooks are registered only between the
\* registration loop and the removal loop of the running write_grads call,
\* and every registered hook belongs to that call; none is registered once a
\* call has returned.
C8_NoStaleHooks ==
    ~raised =>
        /\ AnyHook => pc \in {"zero_grad", "backward", "step", "remove"}
        /\ \A i \in 1..NParams(net) : \A n \in 1..Len(hooks[i]) :
               hooks[i][n].owner = calls

C8_Witness ==
    /\ pc = "idle"
    /\ ~raised
    /\ adam_step[1] >= 2
    /\ ~AnyHook

\* C9: a meta_eval call runs reset, num_updates inner steps and the query
\* evaluation for every episode; no step of it changes the base parameters,
\* the outer optimizer's state or the registered hooks, or accumulates a
\* gradient; it returns the episodes' losses in episode order and, for each
\* of the six scores, the mean over the batch.
C9_EvalFrameAndResult ==
    /\ [][(mode = "eval" \/ mode' = "eval") =>
            /\ theta' = theta
            /\ adam_step' = adam_step
            /\ hooks' = hooks
            /\ sum_ref' = "None"]_vars
    /\ [](mode = "eval" => IsPrefix(log, ExpectedEvalLog(meta_batchsz, num_updates)))
    /\ [](pc = "pred_return" =>
            /\ log = ExpectedEvalLog(meta_batchsz, num_updates)
            /\ PredReturn.losses = [e \in 1..meta_batchsz |-> ep_out[e].loss]
            /\ \A j \in 1..6 :
                 PredReturn.means[j] =
                    [num |-> SeqSum([e \in 1..meta_batchsz |-> ep_out[e].scores[j]]),
                     den |-> meta_batchsz])

C9_Witness ==
    /\ pc = "pred_return"
    /\ meta_batchsz >= 2
    /\ ep_out[1].loss # ep_out[2].loss
    /\ adam_step[1] >= 1

\* The family a module type belongs to.
LayerFamily(kind) ==
    CASE kind = "Linear" -> "linear"
      [] kind \in {"Conv1d", "Conv2d"} -> "convolutional"
      [] kind \in {"BatchNorm2d", "LayerNorm"} -> "normalization"
      [] OTHER -> "other"

KindOf(i) == net_pi[Parameters(net_pi)[i].layer].kind

====
